---- MODULE Spec2Model ----
(***************************************************************************)
(* Track-editing engine of track_gardener (db/db_functions.py).           *)
(*                                                                         *)
(* The store is the content of the two tables as seen through the single  *)
(* SQLAlchemy session every operation receives (autoflush is on, so each  *)
(* query inside an operation sees the assignments made before it):        *)
(*   tracks : track_id -> [parent_track_id, root, t_begin, t_end]         *)
(*   cells  : set of <<track_id, t>> (the composite primary key)          *)
(* The remaining columns (accepted_tag, tags, notes, row, col, bbox, mask, *)
(* signals) are never read or written by the operations modelled here.    *)
(***************************************************************************)
EXTENDS Integers, FiniteSets, Sequences, TLC

\* ---------------------------------------------------------------- bounds
MaxId == 4
MaxT == 4
MaxSteps == 2

\* ------------------------------------------------------------- constants
NO_PARENT == -1
None == 0

Ids == 1..MaxId
Frames == 0..MaxT

VARIABLES tracks, cells, last, pre, steps, sessions

vars == <<tracks, cells, last, pre, steps, sessions>>

\* --------------------------------------------------------------- helpers
Max(S) == CHOOSE x \in S : \A y \in S : y <= x
Min(S) == CHOOSE x \in S : \A y \in S : x <= y

TrackDB(p, r, b, e) ==
    [parent_track_id |-> p, root |-> r, t_begin |-> b, t_end |-> e]

\* Result of running an operation: the tables it leaves in the session, its
\* return value and how it ended ("ok", the name of the exception raised, or
\* "hang" when a query never returns).
Outcome(tr, cl, ret, exc) == [tr |-> tr, cl |-> cl, ret |-> ret, exc |-> exc]

Put(tr, id, rec) == [i \in (DOMAIN tr) \cup {id} |-> IF i = id THEN rec ELSE tr[i]]
Drop(tr, id) == [i \in (DOMAIN tr) \ {id} |-> tr[i]]

cells_t(cl, id) == {c[2] : c \in {x \in cl : x[1] = id}}

get_new_track_id_by_count(tr) == Cardinality(DOMAIN tr) + 1

get_new_track_id_without_increment(tr) == IF DOMAIN tr = {} THEN 1 ELSE Max(DOMAIN tr)

get_new_track_id(tr) == IF DOMAIN tr = {} THEN 1 ELSE Max(DOMAIN tr) + 1

\* Rows whose parent_track_id is in S.
ChildrenOf(tr, S) == {c \in DOMAIN tr : tr[c].parent_track_id \in S}

RECURSIVE Closure(_, _)
Closure(tr, S) ==
    LET N == S \cup ChildrenOf(tr, S)
    IN  IF N = S THEN S ELSE Closure(tr, N)

get_descendants_children_only(tr, active_label) ==
    ({active_label} \cap DOMAIN tr) \cup ChildrenOf(tr, {active_label} \cap DOMAIN tr)

\* The recursive CTE: the row of active_label (if any) plus everything reachable
\* through parent_track_id == <row already found>.
get_descendants(tr, active_label) == Closure(tr, {active_label} \cap DOMAIN tr)

\* UNION ALL does not remove duplicates: the CTE produces rows forever when a
\* row reachable from active_label is reachable from itself.
Diverges(tr, active_label) ==
    \E x \in get_descendants(tr, active_label) :
        x \in Closure(tr, ChildrenOf(tr, {x}))

\* ------------------------------------------------------------ cut_trackDB
\* The first branch: the cut is invalid or has no effect.
cut_no_effect_outside_only(record, current_frame) ==
    \/ record.t_end < current_frame
    \/ record.t_begin > current_frame

cut_no_effect(record, current_frame) ==
    \/ record.t_end < current_frame
    \/ record.t_begin > current_frame
    \/ (record.parent_track_id = -1 /\ record.t_begin = current_frame)

\* The frames around the cut among the track's own cells (min/max of an empty
\* list raises ValueError, checked by the caller).
t_start_of(ts, current_frame) == Min({t \in ts : t >= current_frame})

t_stop_of_contiguous(ts, current_frame) == current_frame - 1

t_stop_of(ts, current_frame) == Max({t \in ts : t < current_frame})

\* What the split does to a descendant row other than the cut track.
split_relink_root_only(rec, active_label, new_track) ==
    [rec EXCEPT !.root = new_track]

split_relink(rec, active_label, new_track) ==
    [rec EXCEPT !.root = new_track,
                !.parent_track_id = IF @ = active_label THEN new_track ELSE @]

\* Case 1: detaching at t_begin.
cut_detach_whole_family(tr, cl, active_label) ==
    LET tr1 == [tr EXCEPT ![active_label].parent_track_id = -1]
        family == {i \in DOMAIN tr : tr[i].root = tr[active_label].root}
    IN  Outcome([i \in DOMAIN tr1 |->
                    IF i \in family
                    THEN [tr1[i] EXCEPT !.root = active_label]
                    ELSE tr1[i]],
                 cl, <<TRUE, None>>, "ok")

cut_detach(tr, cl, active_label) ==
    LET tr1 == [tr EXCEPT ![active_label].parent_track_id = -1]
        descendants == get_descendants(tr1, active_label)
    IN  IF Diverges(tr1, active_label)
        THEN Outcome(tr1, cl, <<FALSE, None>>, "hang")
        ELSE Outcome([i \in DOMAIN tr1 |->
                        IF i \in descendants
                        THEN [tr1[i] EXCEPT !.root = active_label]
                        ELSE tr1[i]],
                     cl, <<TRUE, None>>, "ok")

\* Case 2, from session.add on: the row of new_track is added, the
\* descendants are moved under it and the session commits. The track has
\* cells on both sides of the frame.
cut_split_add(tr, cl, active_label, current_frame, new_track) ==
    LET org_t_end == tr[active_label].t_end
        ts == cells_t(cl, active_label)
        t_start == t_start_of(ts, current_frame)
        t_stop == t_stop_of(ts, current_frame)
        tr1 == Put([tr EXCEPT ![active_label].t_end = t_stop],
                   new_track,
                   TrackDB(-1, new_track, t_start, org_t_end))
        descendants == get_descendants(tr1, active_label)
    IN  IF Diverges(tr1, active_label)
        THEN Outcome(tr1, cl, <<FALSE, None>>, "hang")
        ELSE Outcome([i \in DOMAIN tr1 |->
                        IF i \in descendants \ {active_label}
                        THEN split_relink(tr1[i], active_label, new_track)
                        ELSE tr1[i]],
                     cl, <<FALSE, new_track>>, "ok")

\* Case 2: splitting in the middle.
cut_split(tr, cl, active_label, current_frame) ==
    LET org_t_end == tr[active_label].t_end
        ts == cells_t(cl, active_label)
    IN  IF {t \in ts : t >= current_frame} = {} \/ {t \in ts : t < current_frame} = {}
        THEN Outcome(tr, cl, <<FALSE, None>>, "ValueError")
        ELSE
        cut_split_add(tr, cl, active_label, current_frame, get_new_track_id(tr))

\* The branch the if/elif chain takes; "unaccounted" is the final else that
\* raises ValueError('Track cutting scenario is not accounted for.').
cut_case(record, current_frame) ==
    IF cut_no_effect(record, current_frame) THEN "no_effect"
    ELSE IF record.parent_track_id > -1 /\ record.t_begin = current_frame
    THEN "detach"
    ELSE IF record.t_begin < current_frame THEN "split"
    ELSE "unaccounted"

cut_trackDB(tr, cl, active_label, current_frame) ==
    IF active_label \notin DOMAIN tr
    THEN Outcome(tr, cl, <<FALSE, None>>, "AttributeError")
    ELSE
    LET branch == cut_case(tr[active_label], current_frame) IN
    IF branch = "no_effect"
    THEN Outcome(tr, cl, <<FALSE, None>>, "ok")
    ELSE IF branch = "detach"
    THEN cut_detach(tr, cl, active_label)
    ELSE IF branch = "split"
    THEN cut_split(tr, cl, active_label, current_frame)
    ELSE Outcome(tr, cl, <<FALSE, None>>, "ValueError")

\* A loop `for track in S: cut_trackDB(session, track.track_id, track.t_begin)`;
\* the rows are visited in track_id order and the loop ends at the first call
\* that does not return.
RECURSIVE CutEach(_, _, _)
CutEach(tr, cl, S) ==
    IF S = {} THEN Outcome(tr, cl, None, "ok")
    ELSE LET c == Min(S)
             r == cut_trackDB(tr, cl, c, tr[c].t_begin)
         IN  IF r.exc # "ok" THEN r ELSE CutEach(r.tr, cl, S \ {c})

\* --------------------------------------------------------- delete_trackDB
delete_trackDB_unguarded(tr, cl, active_label) ==
    IF active_label \notin DOMAIN tr
    THEN Outcome(tr, cl, None, "AttributeError")
    ELSE IF Diverges(tr, active_label)
    THEN Outcome(tr, cl, None, "hang")
    ELSE
    LET descendants == get_descendants(tr, active_label)
        kids == {x \in descendants \ {active_label} :
                    tr[x].parent_track_id = active_label}
        r == CutEach(tr, cl, kids)
    IN  IF r.exc # "ok" THEN r
        ELSE Outcome(Drop(r.tr, active_label), cl, "deleted", "ok")

delete_trackDB(tr, cl, active_label) ==
    IF active_label \notin DOMAIN tr
    THEN Outcome(tr, cl, "Track not found", "ok")
    ELSE IF Diverges(tr, active_label)
    THEN Outcome(tr, cl, None, "hang")
    ELSE
    LET descendants == get_descendants(tr, active_label)
        kids == {x \in descendants \ {active_label} :
                    tr[x].parent_track_id = active_label}
        r == CutEach(tr, cl, kids)
    IN  IF r.exc # "ok" THEN r
        ELSE Outcome(Drop(r.tr, active_label), cl, "deleted", "ok")

\* -------------------------------------------------------------- _merge_t2
\* t1_ind, t2_ind are the rows the two ORM objects refer to; both exist.
_merge_t2_truncate_at_frame(tr, cl, t2_ind, t1_ind, current_frame) ==
    IF Diverges(tr, t2_ind)
    THEN Outcome(tr, cl, None, "hang")
    ELSE
    LET descendants == get_descendants(tr, t2_ind)
        keep == tr[t2_ind].t_begin < current_frame
        tr1 == IF keep
               THEN [tr EXCEPT ![t2_ind].t_end = current_frame]
               ELSE tr
        t1_root == tr1[t1_ind].root
        tr2 == [i \in DOMAIN tr1 |->
                  IF i \in descendants \ {t2_ind}
                  THEN [tr1[i] EXCEPT
                          !.root = t1_root,
                          !.parent_track_id = IF @ = t2_ind THEN t1_ind ELSE @]
                  ELSE tr1[i]]
    IN  Outcome(IF keep THEN tr2 ELSE Drop(tr2, t2_ind), cl, None, "ok")

_merge_t2(tr, cl, t2_ind, t1_ind, current_frame) ==
    IF Diverges(tr, t2_ind)
    THEN Outcome(tr, cl, None, "hang")
    ELSE
    LET descendants == get_descendants(tr, t2_ind)
        keep == tr[t2_ind].t_begin < current_frame
        tr1 == IF keep
               THEN [tr EXCEPT ![t2_ind].t_end = current_frame - 1]
               ELSE tr
        t1_root == tr1[t1_ind].root
        tr2 == [i \in DOMAIN tr1 |->
                  IF i \in descendants \ {t2_ind}
                  THEN [tr1[i] EXCEPT
                          !.root = t1_root,
                          !.parent_track_id = IF @ = t2_ind THEN t1_ind ELSE @]
                  ELSE tr1[i]]
    IN  Outcome(IF keep THEN tr2 ELSE Drop(tr2, t2_ind), cl, None, "ok")

\* ------------------------------------------------------------ _connect_t2
_connect_t2(tr, cl, t2_ind, t1_ind, current_frame) ==
    LET t2 == tr[t2_ind]
        split == t2.t_begin < current_frame
        new_track == IF split THEN get_new_track_id(tr) ELSE None
        new_root == IF t2.root = t2_ind THEN new_track ELSE t2.root
        tr1 == IF split
               THEN Put([tr EXCEPT ![t2_ind].t_begin = current_frame],
                        new_track,
                        TrackDB(t2.parent_track_id, new_root, t2.t_begin,
                                current_frame - 1))
               ELSE tr
        tr2 == [tr1 EXCEPT ![t2_ind].parent_track_id = t1_ind]
        descendants == get_descendants(tr2, t2_ind)
        t1_root == tr2[t1_ind].root
    IN  IF Diverges(tr2, t2_ind)
        THEN Outcome(tr2, cl, new_track, "hang")
        ELSE Outcome([i \in DOMAIN tr2 |->
                        IF i \in descendants
                        THEN [tr2[i] EXCEPT !.root = t1_root]
                        ELSE tr2[i]],
                     cl, new_track, "ok")

\* ------------------------------------------------------ integrate_trackDB
\* The part of integrate_trackDB before the operation is looked at: t1 is cut at
\* current_frame, or its children that start elsewhere are detached.
integrate_prepare_detach_all(tr, cl, t1_ind, current_frame) ==
    LET t1 == tr[t1_ind] IN
    IF t1.t_begin < current_frame /\ t1.t_end >= current_frame
    THEN LET r == cut_trackDB(tr, cl, t1_ind, current_frame)
         IN  Outcome(r.tr, r.cl, r.ret[2], r.exc)
    ELSE IF Diverges(tr, t1_ind)
    THEN Outcome(tr, cl, None, "hang")
    ELSE
    LET descendants == get_descendants(tr, t1_ind)
        kids == {x \in descendants \ {t1_ind} :
                    tr[x].parent_track_id = t1_ind}
    IN  CutEach(tr, cl, kids)

integrate_prepare(tr, cl, t1_ind, current_frame) ==
    LET t1 == tr[t1_ind] IN
    IF t1.t_begin < current_frame /\ t1.t_end >= current_frame
    THEN LET r == cut_trackDB(tr, cl, t1_ind, current_frame)
         IN  Outcome(r.tr, r.cl, r.ret[2], r.exc)
    ELSE IF Diverges(tr, t1_ind)
    THEN Outcome(tr, cl, None, "hang")
    ELSE
    LET descendants == get_descendants(tr, t1_ind)
        kids == {x \in descendants \ {t1_ind} :
                    /\ tr[x].parent_track_id = t1_ind
                    /\ tr[x].t_begin # current_frame}
    IN  CutEach(tr, cl, kids)

\* "if t1 doesn't start yet": the call is rejected.
integrate_rejects_strict(t1, current_frame) == t1.t_begin > current_frame

integrate_rejects(t1, current_frame) == t1.t_begin >= current_frame

\* t1 and t2 are looked up once, before t1 is processed: a t2_ind that is not in
\* the table at that point is None for the whole call.
integrate_trackDB(tr, cl, operation, t1_ind, t2_ind, current_frame) ==
    IF t1_ind \notin DOMAIN tr
    THEN Outcome(tr, cl, None, "AttributeError")
    ELSE IF integrate_rejects(tr[t1_ind], current_frame)
    THEN Outcome(tr, cl, <<-1, None>>, "ok")
    ELSE
    LET p == integrate_prepare(tr, cl, t1_ind, current_frame)
        t1_after == p.ret
    IN  IF p.exc # "ok" THEN Outcome(p.tr, p.cl, None, p.exc)
        ELSE IF operation = "merge"
        THEN IF t2_ind \notin DOMAIN tr
             THEN Outcome(p.tr, cl, None, "AttributeError")
             ELSE LET tr1 == [p.tr EXCEPT ![t1_ind].t_end = p.tr[t2_ind].t_end]
                      m == _merge_t2(tr1, cl, t2_ind, t1_ind, current_frame)
                  IN  Outcome(m.tr, cl,
                              IF m.exc = "ok" THEN <<t1_after, None>> ELSE None,
                              m.exc)
        ELSE IF operation = "connect"
        THEN LET tr1 == [p.tr EXCEPT ![t1_ind].t_end = current_frame - 1]
             IN  IF t2_ind \notin DOMAIN tr
                 THEN Outcome(tr1, cl, None, "AttributeError")
                 ELSE LET c == _connect_t2(tr1, cl, t2_ind, t1_ind, current_frame)
                      IN  Outcome(c.tr, cl,
                                  IF c.exc = "ok" THEN <<t1_after, c.ret>> ELSE None,
                                  c.exc)
        ELSE Outcome(p.tr, cl, None, "ValueError")

\* ---------------------------------------------- update_trackDB_after_cellDB
update_trackDB_after_cellDB_begin_only(tr, cl, cell_id, current_frame) ==
    LET tr0 == IF cell_id \in DOMAIN tr THEN tr
               ELSE Put(tr, cell_id,
                        TrackDB(-1, cell_id, current_frame, current_frame))
        ts == cells_t(cl, cell_id)
    IN  IF ts = {}
        THEN Outcome(Drop(tr0, cell_id), cl, None, "ok")
        ELSE
        LET t_min == Min(ts)
            t_max == Max(ts)
            left == Outcome(tr0, cl, None, "ok")
        IN  IF left.exc # "ok" THEN Outcome(left.tr, cl, None, left.exc)
            ELSE
            LET tr1 == [left.tr EXCEPT ![cell_id].t_begin = t_min]
                offspring == {x \in DOMAIN tr1 : tr1[x].parent_track_id = cell_id}
                right == IF tr1[cell_id].t_end # t_max
                         THEN CutEach(tr1, cl, offspring)
                         ELSE Outcome(tr1, cl, None, "ok")
            IN  IF right.exc # "ok" THEN Outcome(right.tr, cl, None, right.exc)
                ELSE Outcome([right.tr EXCEPT ![cell_id].t_end = t_max],
                             cl, None, "ok")

update_trackDB_after_cellDB_end_only(tr, cl, cell_id, current_frame) ==
    LET tr0 == IF cell_id \in DOMAIN tr THEN tr
               ELSE Put(tr, cell_id,
                        TrackDB(-1, cell_id, current_frame, current_frame))
        ts == cells_t(cl, cell_id)
    IN  IF ts = {}
        THEN Outcome(Drop(tr0, cell_id), cl, None, "ok")
        ELSE
        LET t_min == Min(ts)
            t_max == Max(ts)
            left == IF tr0[cell_id].t_begin # t_min
                    THEN cut_trackDB(tr0, cl, cell_id, tr0[cell_id].t_begin)
                    ELSE Outcome(tr0, cl, None, "ok")
        IN  IF left.exc # "ok" THEN Outcome(left.tr, cl, None, left.exc)
            ELSE
            LET tr1 == [left.tr EXCEPT ![cell_id].t_begin = t_min]
                offspring == {x \in DOMAIN tr1 : tr1[x].parent_track_id = cell_id}
                right == Outcome(tr1, cl, None, "ok")
            IN  IF right.exc # "ok" THEN Outcome(right.tr, cl, None, right.exc)
                ELSE Outcome([right.tr EXCEPT ![cell_id].t_end = t_max],
                             cl, None, "ok")

update_trackDB_after_cellDB_always_cut(tr, cl, cell_id, current_frame) ==
    LET tr0 == IF cell_id \in DOMAIN tr THEN tr
               ELSE Put(tr, cell_id,
                        TrackDB(-1, cell_id, current_frame, current_frame))
        ts == cells_t(cl, cell_id)
    IN  IF ts = {}
        THEN Outcome(Drop(tr0, cell_id), cl, None, "ok")
        ELSE
        LET t_min == Min(ts)
            t_max == Max(ts)
            left == IF tr0[cell_id].t_begin # t_min
                    THEN cut_trackDB(tr0, cl, cell_id, tr0[cell_id].t_begin)
                    ELSE Outcome(tr0, cl, None, "ok")
        IN  IF left.exc # "ok" THEN Outcome(left.tr, cl, None, left.exc)
            ELSE
            LET tr1 == [left.tr EXCEPT ![cell_id].t_begin = t_min]
                offspring == {x \in DOMAIN tr1 : tr1[x].parent_track_id = cell_id}
                right == CutEach(tr1, cl, offspring)
            IN  IF right.exc # "ok" THEN Outcome(right.tr, cl, None, right.exc)
                ELSE Outcome([right.tr EXCEPT ![cell_id].t_end = t_max],
                             cl, None, "ok")

update_trackDB_after_cellDB(tr, cl, cell_id, current_frame) ==
    LET tr0 == IF cell_id \in DOMAIN tr THEN tr
               ELSE Put(tr, cell_id,
                        TrackDB(-1, cell_id, current_frame, current_frame))
        ts == cells_t(cl, cell_id)
    IN  IF ts = {}
        THEN Outcome(Drop(tr0, cell_id), cl, None, "ok")
        ELSE
        LET t_min == Min(ts)
            t_max == Max(ts)
            left == IF tr0[cell_id].t_begin # t_min
                    THEN cut_trackDB(tr0, cl, cell_id, tr0[cell_id].t_begin)
                    ELSE Outcome(tr0, cl, None, "ok")
        IN  IF left.exc # "ok" THEN Outcome(left.tr, cl, None, left.exc)
            ELSE
            LET tr1 == [left.tr EXCEPT ![cell_id].t_begin = t_min]
                offspring == {x \in DOMAIN tr1 : tr1[x].parent_track_id = cell_id}
                right == IF tr1[cell_id].t_end # t_max
                         THEN CutEach(tr1, cl, offspring)
                         ELSE Outcome(tr1, cl, None, "ok")
            IN  IF right.exc # "ok" THEN Outcome(right.tr, cl, None, right.exc)
                ELSE Outcome([right.tr EXCEPT ![cell_id].t_end = t_max],
                             cl, None, "ok")

\* ---------------------------------------------------------- remove_CellDB
remove_CellDB_no_sync(tr, cl, cell_id, current_frame) ==
    IF <<cell_id, current_frame>> \in cl
    THEN Outcome(tr, cl \ {<<cell_id, current_frame>>}, None, "ok")
    ELSE Outcome(tr, cl, None, "ok")

remove_CellDB(tr, cl, cell_id, current_frame) ==
    IF <<cell_id, current_frame>> \in cl
    THEN update_trackDB_after_cellDB(tr, cl \ {<<cell_id, current_frame>>},
                                     cell_id, current_frame)
    ELSE Outcome(tr, cl, None, "ok")

\* --------------------------------------------------------- add_new_CellDB
\* create_CellDB_core inserts the row (cell.label, current_frame); the primary
\* key (track_id, t) makes the insert of an existing pair fail, so the action
\* below only offers pairs that are not in the table.
add_new_CellDB(tr, cl, current_frame, label) ==
    update_trackDB_after_cellDB(tr, cl \cup {<<label, current_frame>>},
                                label, current_frame)

\* ------------------------------------------- update_cellsDB_after_trackDB
Directions == {"after", "before", "all"}

direction_valid_any(direction) == TRUE

direction_valid(direction) == direction \in Directions

\* The frames of the cells the query of each direction returns.
selected_t_before_inclusive(cl, active_label, current_frame, direction) ==
    {t \in cells_t(cl, active_label) :
        \/ direction = "after" /\ t >= current_frame
        \/ direction = "before" /\ t <= current_frame
        \/ direction \notin {"after", "before"}}

selected_t(cl, active_label, current_frame, direction) ==
    {t \in cells_t(cl, active_label) :
        \/ direction = "after" /\ t >= current_frame
        \/ direction = "before" /\ t < current_frame
        \/ direction \notin {"after", "before"}}

\* A ValueError carries its message in ret. The rows are rewritten at commit. (track_id, t) is the primary key of the
\* cells table: a rewritten row that meets an existing row of new_track makes
\* the commit fail, and the transaction is rolled back.
update_cellsDB_after_trackDB_unasserted(tr, cl, active_label, current_frame, new_track, direction) ==
    IF ~direction_valid(direction)
    THEN Outcome(tr, cl, "Direction should be 'all', 'before' or 'after'.",
                 "ValueError")
    ELSE
    LET query == selected_t(cl, active_label, current_frame, direction)
        rows == {<<active_label, t>> : t \in query}
    IN  IF new_track = None THEN Outcome(tr, cl \ rows, None, "ok")
        ELSE IF new_track # active_label
                /\ \E t \in query : <<new_track, t>> \in cl
        THEN Outcome(tr, cl, None, "IntegrityError")
        ELSE Outcome(tr, (cl \ rows) \cup {<<new_track, t>> : t \in query},
                     None, "ok")

update_cellsDB_after_trackDB(tr, cl, active_label, current_frame, new_track, direction) ==
    IF ~direction_valid(direction)
    THEN Outcome(tr, cl, "Direction should be 'all', 'before' or 'after'.",
                 "ValueError")
    ELSE
    LET query == selected_t(cl, active_label, current_frame, direction)
        rows == {<<active_label, t>> : t \in query}
    IN  IF query = {} THEN Outcome(tr, cl, None, "AssertionError")
        ELSE IF new_track = None THEN Outcome(tr, cl \ rows, None, "ok")
        ELSE IF new_track # active_label
                /\ \E t \in query : <<new_track, t>> \in cl
        THEN Outcome(tr, cl, None, "IntegrityError")
        ELSE Outcome(tr, (cl \ rows) \cup {<<new_track, t>> : t \in query},
                     None, "ok")

\* --------------------------------------------------------------- validator
\* The nodes reachable from S along the edges E (S included).
RECURSIVE Reach(_, _)
Reach(E, S) ==
    LET step == S \cup {e[2] : e \in {d \in E : d[1] \in S}}
    IN  IF step = S THEN S ELSE Reach(E, step)

\* The heads of the edges of E that leave n.
Succ(E, n) == {e[2] : e \in {d \in E : d[1] = n}}

\* The error strings of one check, grouped by the check that reports them:
\* one flag for a check that reports a single string, one element per string
\* for a check that reports one string per offending track, pair or component.
NoErrors ==
    [orphan_cells |-> FALSE, orphan_tracks |-> FALSE, parent_not_found |-> {},
     time |-> {}, cycle |-> FALSE, roots_present |-> {},
     roots_consistency |-> {}]

is_empty(errors) == errors = NoErrors

check_no_orphan_cells(tr, cl) == \E c \in cl : c[1] \notin DOMAIN tr

check_no_orphan_tracks(tr, cl) == \E x \in DOMAIN tr : cells_t(cl, x) = {}

has_parent(rec) == rec.parent_track_id # None /\ rec.parent_track_id # NO_PARENT

time_error_strict(parent, child) == parent.t_end > child.t_begin

time_error(parent, child) == parent.t_end >= child.t_begin

\* G is the pair of its nodes and its edges <<parent, child>>; the node
\* attribute root is read from the track table.
build_track_graph(tr) ==
    LET linked == {x \in DOMAIN tr : has_parent(tr[x])}
        missing == {x \in linked : tr[x].parent_track_id \notin DOMAIN tr}
        late == {x \in linked \ missing :
                    time_error(tr[tr[x].parent_track_id], tr[x])}
    IN  [G |-> [nodes |-> DOMAIN tr,
                edges |-> {<<tr[x].parent_track_id, x>> :
                              x \in (linked \ missing) \ late}],
         parent_not_found |-> {<<tr[x].parent_track_id, x>> : x \in missing},
         time |-> {<<tr[x].parent_track_id, x>> : x \in late}]

\* nx.find_cycle finds a directed cycle, a self-loop included.
check_no_cycles(G) == \E n \in G.nodes : n \in Reach(G.edges, Succ(G.edges, n))

weakly_connected_components(G) ==
    {Reach(G.edges \cup {<<e[2], e[1]>> : e \in G.edges}, {n}) : n \in G.nodes}

check_roots_present(tr, G) ==
    {c \in weakly_connected_components(G) :
        Cardinality({tr[n].root : n \in c}) > 1}

\* The walk from each node up its predecessors (a node of G has at most one)
\* ends when no node it passes lies on a cycle of G.
check_roots_consistency_walks(G) ==
    LET up == {<<e[2], e[1]>> : e \in G.edges}
    IN  \A n \in G.nodes :
            \A a \in Reach(up, {n}) : a \notin Reach(up, Succ(up, a))

\* One string for each pair of a node and an ancestor whose roots differ.
check_roots_consistency(tr, G) ==
    LET up == {<<e[2], e[1]>> : e \in G.edges}
    IN  {p \in G.nodes \X G.nodes :
            /\ p[2] \in Reach(up, Succ(up, p[1]))
            /\ tr[p[2]].root # tr[p[1]].root}

run_tracking_db_checks(tr, cl) ==
    LET errors == [NoErrors EXCEPT
                     !.orphan_cells = check_no_orphan_cells(tr, cl),
                     !.orphan_tracks = check_no_orphan_tracks(tr, cl)]
        b == build_track_graph(tr)
    IN  IF ~is_empty(errors) THEN Outcome(tr, cl, errors, "ok")
        ELSE IF ~check_roots_consistency_walks(b.G)
        THEN Outcome(tr, cl, None, "hang")
        ELSE Outcome(tr, cl,
                     [errors EXCEPT
                        !.parent_not_found = b.parent_not_found,
                        !.time = b.time,
                        !.cycle = check_no_cycles(b.G),
                        !.roots_present = check_roots_present(tr, b.G),
                        !.roots_consistency = check_roots_consistency(tr, b.G)],
                     "ok")

\* -------------------------------------------------------------- converters
\* The columns the export reads from the row of the cells table with primary
\* key c = (track_id, t): id is unique among the rows, row and col are the
\* centroid stored with the cell.
CellDB(c) ==
    [track_id |-> c[1], t |-> c[2], id |-> c[1] * (MaxT + 1) + c[2] + 1,
     row |-> c[1] + c[2], col |-> c[1]]

\* The cell graph: its nodes are cell ids, attr gives the attributes of a
\* node, edges are pairs <<from, to>>. Only tracks that have cells are
\* exported; a cell of a track without a row is not.
TG_to_cell_graph(tr, cl) ==
    LET track_ids == {x \in DOMAIN tr : cells_t(cl, x) # {}}
        exported == {c \in cl : c[1] \in track_ids}
        node(x, t) == CellDB(<<x, t>>).id
        intra == {<<node(x, t), node(x, u)>> :
                    <<x, t, u>> \in
                      {w \in track_ids \X Frames \X Frames :
                          /\ w[2] \in cells_t(cl, w[1])
                          /\ w[3] \in cells_t(cl, w[1])
                          /\ w[2] < w[3]
                          /\ \A v \in cells_t(cl, w[1]) :
                                ~(w[2] < v /\ v < w[3])}}
        lineage == {<<node(tr[x].parent_track_id,
                           Max(cells_t(cl, tr[x].parent_track_id))),
                      node(x, Min(cells_t(cl, x)))>> :
                      x \in {y \in track_ids :
                                /\ tr[y].parent_track_id # None
                                /\ tr[y].parent_track_id \in track_ids}}
    IN  [nodes |-> {CellDB(c).id : c \in exported},
         attr |-> [n \in {CellDB(c).id : c \in exported} |->
                     LET cell == CellDB(CHOOSE c \in exported : CellDB(c).id = n)
                     IN  [t |-> cell.t, y |-> cell.row, x |-> cell.col,
                          track_id |-> cell.track_id,
                          segm_id |-> cell.track_id]],
         edges |-> intra \cup lineage]

\* Called with attribute_name = "track_id" on an exported graph: every node
\* carries the attribute, so the loop skips every node and no label is
\* written. nx.topological_sort raises when a component has a cycle.
assign_tracklet_ids(G) ==
    IF check_no_cycles(G) THEN [G |-> G, exc |-> "NetworkXUnfeasible"]
    ELSE [G |-> G, exc |-> "ok"]

\* Called with attribute_name = "track_id" and prop_names = ["t"].
build_tracklet_graph(G) ==
    LET of(track_id) == {n \in G.nodes : G.attr[n].track_id = track_id}
        ids == {G.attr[n].track_id : n \in G.nodes}
    IN  [nodes |-> ids,
         attr |-> [i \in ids |->
                     [t_min |-> Min({G.attr[n].t : n \in of(i)}),
                      t_max |-> Max({G.attr[n].t : n \in of(i)})]],
         edges |-> {<<G.attr[e[1]].track_id, G.attr[e[2]].track_id>> :
                      e \in {d \in G.edges :
                                G.attr[d[1]].track_id # G.attr[d[2]].track_id}}]

in_degree(G, n) == Cardinality({e \in G.edges : e[2] = n})

\* The root of a node is the node without predecessor of its component, its
\* parent the first of its predecessors; a node of a tracklet graph built from
\* an export has at most one predecessor, and so its component at most one
\* node without predecessor. next() raises StopIteration when the component
\* has none.
tracklet_graph_to_TrackDB_own_root(tracklet_graph) ==
    [ret |-> [node_id \in tracklet_graph.nodes |->
                LET parent == {e[1] : e \in {d \in tracklet_graph.edges :
                                                d[2] = node_id}}
                IN  TrackDB(IF parent = {} THEN NO_PARENT ELSE Min(parent),
                            node_id,
                            tracklet_graph.attr[node_id].t_min,
                            tracklet_graph.attr[node_id].t_max)],
     exc |-> "ok"]

tracklet_graph_to_TrackDB(tracklet_graph) ==
    LET component(n) ==
            CHOOSE c \in weakly_connected_components(tracklet_graph) : n \in c
        roots(n) == {r \in component(n) : in_degree(tracklet_graph, r) = 0}
    IN  IF \E n \in tracklet_graph.nodes : roots(n) = {}
        THEN [ret |-> None, exc |-> "StopIteration"]
        ELSE [ret |-> [node_id \in tracklet_graph.nodes |->
                LET parent == {e[1] : e \in {d \in tracklet_graph.edges :
                                                d[2] = node_id}}
                IN  TrackDB(IF parent = {} THEN NO_PARENT ELSE Min(parent),
                            Min(roots(node_id)),
                            tracklet_graph.attr[node_id].t_min,
                            tracklet_graph.attr[node_id].t_max)],
              exc |-> "ok"]

\* The track table rebuilt from a cell graph.
tracks_sql_objects(G) ==
    LET labelled == assign_tracklet_ids(G)
    IN  IF labelled.exc # "ok" THEN [ret |-> None, exc |-> labelled.exc]
        ELSE tracklet_graph_to_TrackDB(build_tracklet_graph(labelled.G))

\* ----------------------------------------------------------- state machine
Store(tr, cl) == [tracks |-> tr, cells |-> cl]

\* Consistent stores the editor can be opened on.
\* Family: a mother with two daughters.
Family ==
    Store((1 :> TrackDB(-1, 1, 0, 1)) @@ (2 :> TrackDB(1, 1, 2, 4)) @@
          (3 :> TrackDB(1, 1, 2, 3)),
          {<<1, 0>>, <<1, 1>>, <<2, 2>>, <<2, 3>>, <<2, 4>>, <<3, 2>>, <<3, 3>>})

\* Chain: three generations, the middle one observed in a single frame.
Chain ==
    Store((1 :> TrackDB(-1, 1, 0, 1)) @@ (2 :> TrackDB(1, 1, 2, 2)) @@
          (3 :> TrackDB(2, 1, 3, 4)),
          {<<1, 0>>, <<1, 1>>, <<2, 2>>, <<3, 3>>, <<3, 4>>})

\* Gapped: tracks with missing frames; the daughter starts after a gap.
Gapped ==
    Store((1 :> TrackDB(-1, 1, 0, 2)) @@ (2 :> TrackDB(1, 1, 4, 4)) @@
          (3 :> TrackDB(-1, 3, 1, 4)),
          {<<1, 0>>, <<1, 2>>, <<2, 4>>, <<3, 1>>, <<3, 2>>, <<3, 4>>})

\* Pair: two floating tracks that overlap in time.
Pair ==
    Store((1 :> TrackDB(-1, 1, 0, 3)) @@ (2 :> TrackDB(-1, 2, 1, 4)),
          {<<1, 0>>, <<1, 1>>, <<1, 2>>, <<1, 3>>,
           <<2, 1>>, <<2, 2>>, <<2, 3>>, <<2, 4>>})

InitStores == {Family, Chain, Gapped, Pair}

\* The callers that may hold a session on the store, and a caller that is
\* not inside a call.
Callers == {"first", "second"}

Idle ==
    [pc |-> "idle", active_label |-> None, current_frame |-> 0,
     new_track |-> None, overlap |-> FALSE]

\* No operation has run yet; n more operations will be issued.
Fresh(s, n) ==
    /\ tracks = s.tracks
    /\ cells = s.cells
    /\ pre = s
    /\ last = [op |-> "init", a |-> None, b |-> None, f |-> 0,
               ret |-> None, exc |-> "ok"]
    /\ steps = n
    /\ sessions = [p \in Callers |-> Idle]

Init == \E s \in InitStores : Fresh(s, MaxSteps)

\* A longer editing session on the three-generation store.
InitDeep == Fresh(Chain, MaxSteps + 1)

\* An operation can be issued while the previous one has come back (returned or
\* raised); a call that hangs never comes back.
Running == last.exc # "hang" /\ steps > 0

\* pre and last record the store before the call, the call and its outcome.
\* Track ids stay within Ids.
Apply(op, a, b, f, r) ==
    /\ DOMAIN r.tr \subseteq Ids
    /\ tracks' = r.tr
    /\ cells' = r.cl
    /\ pre' = Store(tracks, cells)
    /\ last' = [op |-> op, a |-> a, b |-> b, f |-> f, ret |-> r.ret, exc |-> r.exc]
    /\ steps' = steps - 1
    /\ UNCHANGED sessions

Cut ==
    /\ Running
    /\ \E id \in Ids, f \in Frames :
        Apply("cut", id, None, f, cut_trackDB(tracks, cells, id, f))

Delete ==
    /\ Running
    /\ \E id \in Ids :
        Apply("delete", id, None, 0, delete_trackDB(tracks, cells, id))

Operations == {"merge", "connect", "join"}

Integrate ==
    /\ Running
    /\ \E op \in Operations, t1 \in Ids, t2 \in Ids, f \in Frames :
        Apply(op, t1, t2, f, integrate_trackDB(tracks, cells, op, t1, t2, f))

RemoveCell ==
    /\ Running
    /\ \E id \in Ids, f \in Frames :
        Apply("remove", id, None, f, remove_CellDB(tracks, cells, id, f))

AddCell ==
    /\ Running
    /\ \E id \in Ids, f \in Frames :
        /\ <<id, f>> \notin cells
        /\ Apply("add", id, None, f, add_new_CellDB(tracks, cells, f, id))

Next == Cut \/ Delete \/ Integrate \/ RemoveCell \/ AddCell

Spec == Init /\ [][Next]_vars

SpecDeep == InitDeep /\ [][Next]_vars

\* A session that edits the cells of the three-generation store and cuts
\* tracks, two operations longer.
InitCells == Fresh(Chain, MaxSteps + 2)

NextCells == RemoveCell \/ AddCell \/ Cut

SpecCells == InitCells /\ [][NextCells]_vars

\* The cell reassignment that follows a track edit; last.op records the
\* direction of the call, last.b the new track.
UpdateCells ==
    /\ Running
    /\ \E d \in Directions \cup {"sideways"}, id \in Ids, f \in Frames,
          n \in Ids \cup {None} :
        Apply(d, id, n, f,
              update_cellsDB_after_trackDB(tracks, cells, id, f, n, d))

\* A session in which track edits are followed by cell reassignments.
NextSync == Cut \/ Integrate \/ UpdateCells

SpecSync == Init /\ [][NextSync]_vars

\* The validator is run on any content of the two tables. Tables of up to
\* MaxTracks tracks: parents may be None, NO_PARENT, a track or a missing id.
MaxTracks == 3

Spans == {<<0, 0>>, <<1, 1>>, <<2, 2>>, <<1, 0>>}

Rows(parents, spans) ==
    {TrackDB(p, r, sp[1], sp[2]) : p \in parents, r \in 1..2, sp \in spans}

Tables ==
    UNION {[1..n -> Rows({None, NO_PARENT} \cup Ids, Spans)] : n \in 1..2}
    \cup [1..MaxTracks -> Rows((NO_PARENT .. MaxId) \ {None}, Spans \ {<<2, 2>>})]

\* Every track has a cell, or track 1 has none, or there is a cell of a
\* track that has no row.
CellTables(tr) ==
    LET full == {<<x, tr[x].t_begin>> : x \in DOMAIN tr}
    IN  {full, full \ {<<1, tr[1].t_begin>>}, full \cup {<<MaxId, 0>>}}

InitValidate ==
    \E tr \in Tables : \E cl \in CellTables(tr) : Fresh(Store(tr, cl), 1)

BuildGraph ==
    /\ Running
    /\ Apply("build_track_graph", None, None, 0,
             Outcome(tracks, cells, build_track_graph(tracks), "ok"))

RunChecks ==
    /\ Running
    /\ Apply("run_tracking_db_checks", None, None, 0,
             run_tracking_db_checks(tracks, cells))

NextValidate == BuildGraph \/ RunChecks

SpecValidate == InitValidate /\ [][NextValidate]_vars

\* The descendant query on its own; it reads the track table only.
GetDescendants ==
    /\ Running
    /\ \E id \in Ids :
        Apply("get_descendants", id, None, 0,
              IF Diverges(tracks, id)
              THEN Outcome(tracks, cells, None, "hang")
              ELSE Outcome(tracks, cells, get_descendants(tracks, id), "ok"))

\* A session in which lineages are queried between edits.
NextQuery == Next \/ GetDescendants

SpecQuery == Init /\ [][NextQuery]_vars

\* Two callers cut tracks in the middle, each in a session of its own. A
\* cut is two steps: up to the return of get_new_track_id (the id is read),
\* and from session.add to the commit (the row is written). overlap records
\* that another caller was between its two steps at some moment of the call.
InFlight(p) == sessions[p].pc = "allocated"

CutRead(p) ==
    /\ steps > 0
    /\ ~InFlight(p)
    /\ get_new_track_id(tracks) \in Ids
    /\ \E id \in DOMAIN tracks, f \in Frames :
        /\ cut_case(tracks[id], f) = "split"
        /\ {t \in cells_t(cells, id) : t >= f} # {}
        /\ {t \in cells_t(cells, id) : t < f} # {}
        /\ sessions' =
              [q \in Callers |->
                 IF q = p
                 THEN [pc |-> "allocated", active_label |-> id,
                       current_frame |-> f,
                       new_track |-> get_new_track_id(tracks),
                       overlap |-> \E o \in Callers \ {p} : InFlight(o)]
                 ELSE IF InFlight(q)
                 THEN [sessions[q] EXCEPT !.overlap = TRUE]
                 ELSE sessions[q]]
    /\ steps' = steps - 1
    /\ UNCHANGED <<tracks, cells, pre, last>>

\* The INSERT of a row whose track_id exists violates the primary key: the
\* commit raises and the transaction is rolled back.
CutCommit(p) ==
    /\ InFlight(p)
    /\ LET s == sessions[p]
           r == IF s.new_track \in DOMAIN tracks
                THEN Outcome(tracks, cells, <<FALSE, None>>, "IntegrityError")
                ELSE cut_split_add(tracks, cells, s.active_label,
                                   s.current_frame, s.new_track)
       IN  /\ tracks' = r.tr
           /\ cells' = r.cl
           /\ pre' = Store(tracks, cells)
           /\ last' = [op |-> "cut", a |-> s.active_label, b |-> None,
                       f |-> s.current_frame, ret |-> r.ret, exc |-> r.exc]
           /\ sessions' = [sessions EXCEPT ![p].pc =
                              IF r.exc = "ok" THEN "committed" ELSE "failed"]
    /\ UNCHANGED steps

InitConcurrent == \E s \in InitStores : Fresh(s, MaxSteps + 2)

NextConcurrent == \E p \in Callers : CutRead(p) \/ CutCommit(p)

SpecConcurrent == InitConcurrent /\ [][NextConcurrent]_vars

\* The store is exported to a cell graph, and the track table is rebuilt
\* from the exported graph; neither writes to the store.
Export ==
    /\ last.exc # "hang"
    /\ last.op # "TG_to_cell_graph"
    /\ pre' = Store(tracks, cells)
    /\ last' = [op |-> "TG_to_cell_graph", a |-> None, b |-> None, f |-> 0,
                ret |-> TG_to_cell_graph(tracks, cells), exc |-> "ok"]
    /\ UNCHANGED <<tracks, cells, steps, sessions>>

Rebuild ==
    /\ last.op = "TG_to_cell_graph"
    /\ pre' = Store(tracks, cells)
    /\ LET r == tracks_sql_objects(last.ret)
       IN  last' = [op |-> "tracklet_graph_to_TrackDB", a |-> None,
                    b |-> None, f |-> 0, ret |-> r.ret, exc |-> r.exc]
    /\ UNCHANGED <<tracks, cells, steps, sessions>>

\* A session in which the store is exported between edits.
NextExport == Next \/ Export \/ Rebuild

SpecExport == Init /\ [][NextExport]_vars

\* ================================================================ claims
Returned == last.exc = "ok"

\* The track the last operation was called on, before and after the call.
Before(id) == pre.tracks[id]
After(id) == tracks[id]

\* x is its own ancestor in the parent relation of tr.
OwnAncestor(tr, x) == x \in Closure(tr, ChildrenOf(tr, {x}))

\* The stored bounds of track id equal the min/max t of its own cells.
BoundsMatch(tr, cl, id) ==
    /\ cells_t(cl, id) # {}
    /\ tr[id].t_begin = Min(cells_t(cl, id))
    /\ tr[id].t_end = Max(cells_t(cl, id))

IsCutOn(id) == last.op = "cut" /\ last.a = id /\ id \in DOMAIN pre.tracks

\* C1 - Acyclicity: after any sequence of cut, delete, merge, connect and cell
\* add/remove calls that returned, no track is its own ancestor (in particular
\* no track has parent_track_id equal to its own track_id).
C1_Acyclic ==
    Returned => \A x \in DOMAIN tracks : ~OwnAncestor(tracks, x)

\* C2 - Root invariant: after any sequence of the mutation operations, a track
\* without parent is its own root and a track with a parent has the root of its
\* parent track.
C2_RootInvariant ==
    Returned =>
        \A x \in DOMAIN tracks :
            IF tracks[x].parent_track_id = NO_PARENT
            THEN tracks[x].root = x
            ELSE tracks[x].parent_track_id \in DOMAIN tracks =>
                    tracks[x].root = tracks[tracks[x].parent_track_id].root

\* C3 - Time adjacency: after any sequence of the mutation operations, every
\* track whose parent exists starts after its parent ends.
C3_TimeAdjacency ==
    Returned =>
        \A x \in DOMAIN tracks :
            tracks[x].parent_track_id \in DOMAIN tracks =>
                tracks[tracks[x].parent_track_id].t_end < tracks[x].t_begin

\* C4 - No orphan cells: after any sequence of the mutation operations, every
\* cell's track_id is the id of an existing track row.
C4_NoOrphanCells ==
    Returned => \A c \in cells : c[1] \in DOMAIN tracks

C6_IntegrateFailureAtomic ==
    (/\ last.op \in Operations
     /\ last.a \in DOMAIN pre.tracks
     /\ (last.op \notin {"merge", "connect"} \/ last.b \notin DOMAIN pre.tracks)
     /\ last.exc \in {"ValueError", "AttributeError"})
    => Store(tracks, cells) = pre

\* C7 - Mid-track cut bounds: cutting a track whose bounds match its cells at a
\* frame with t_begin < frame <= t_end returns (False, max id + 1), truncates the
\* track to its last cell before frame and creates the new floating track from
\* its first cell at or after frame to the original t_end.
C7_MidCutBounds ==
    (/\ IsCutOn(last.a)
     /\ Before(last.a).t_begin < last.f /\ last.f <= Before(last.a).t_end
     /\ BoundsMatch(pre.tracks, pre.cells, last.a))
    => LET new_id == Max(DOMAIN pre.tracks) + 1
           ts == cells_t(pre.cells, last.a)
       IN  /\ Returned
           /\ last.ret = <<FALSE, new_id>>
           /\ After(last.a).t_end = Max({t \in ts : t < last.f})
           /\ After(last.a).t_begin = Before(last.a).t_begin
           /\ new_id \in DOMAIN tracks
           /\ tracks[new_id] = TrackDB(NO_PARENT, new_id,
                                       Min({t \in ts : t >= last.f}),
                                       Before(last.a).t_end)

\* A cut right after a gap: the track ends before frame - 1.
C7_Witness ==
    /\ IsCutOn(last.a) /\ Returned
    /\ BoundsMatch(pre.tracks, pre.cells, last.a)
    /\ last.ret[2] # None
    /\ After(last.a).t_end < last.f - 1

\* C8 - Mid-track cut lineage: when a cut with t_begin < frame <= t_end returned
\* new_id, the former children of the track have parent new_id, all its former
\* descendants have root new_id, deeper descendants keep their parent, and the
\* track keeps its own parent and root.
C8_MidCutLineage ==
    (/\ IsCutOn(last.a) /\ Returned
     /\ Before(last.a).t_begin < last.f /\ last.f <= Before(last.a).t_end)
    => LET new_id == last.ret[2]
           desc == get_descendants(pre.tracks, last.a) \ {last.a}
       IN  /\ new_id # None
           /\ \A d \in desc :
                /\ d \in DOMAIN tracks
                /\ tracks[d].root = new_id
                /\ tracks[d].parent_track_id =
                      IF pre.tracks[d].parent_track_id = last.a
                      THEN new_id
                      ELSE pre.tracks[d].parent_track_id
           /\ After(last.a).parent_track_id = Before(last.a).parent_track_id
           /\ After(last.a).root = Before(last.a).root

\* The cut track had a child and a grandchild.
C8_Witness ==
    /\ IsCutOn(last.a) /\ Returned
    /\ last.ret[2] # None
    /\ \E c, g \in DOMAIN pre.tracks :
        /\ pre.tracks[c].parent_track_id = last.a
        /\ pre.tracks[g].parent_track_id = c
        /\ tracks[c].parent_track_id = last.ret[2]
        /\ tracks[g].parent_track_id = c

\* C9 - Detach cut: cutting a track that has a parent at its own t_begin returns
\* (True, None), makes the track a floating root of its whole subtree, keeps its
\* bounds and creates no track.
C9_DetachCut ==
    (/\ IsCutOn(last.a)
     /\ Before(last.a).parent_track_id # NO_PARENT
     /\ last.f = Before(last.a).t_begin)
    => /\ Returned
       /\ last.ret = <<TRUE, None>>
       /\ After(last.a).parent_track_id = NO_PARENT
       /\ After(last.a).root = last.a
       /\ \A d \in get_descendants(pre.tracks, last.a) : tracks[d].root = last.a
       /\ After(last.a).t_begin = Before(last.a).t_begin
       /\ After(last.a).t_end = Before(last.a).t_end
       /\ DOMAIN tracks = DOMAIN pre.tracks

\* C10 - No-op cut: a cut at a frame outside the track's span, or at the t_begin
\* of a floating track, returns (False, None) and changes no row.
C10_NoOpCut ==
    (/\ IsCutOn(last.a)
     /\ \/ last.f < Before(last.a).t_begin
        \/ last.f > Before(last.a).t_end
        \/ (last.f = Before(last.a).t_begin
            /\ Before(last.a).parent_track_id = NO_PARENT))
    => /\ Returned
       /\ last.ret = <<FALSE, None>>
       /\ Store(tracks, cells) = pre

\* A floating track that has children was cut at its own first frame.
C10_Witness ==
    /\ IsCutOn(last.a) /\ Returned
    /\ last.f = Before(last.a).t_begin
    /\ Before(last.a).parent_track_id = NO_PARENT
    /\ ChildrenOf(pre.tracks, {last.a}) # {}
    /\ last.ret = <<FALSE, None>>

\* The last call was integrate_trackDB(op, last.a, last.b, last.f) on two rows
\* that existed.
IsIntegrateOn(op) ==
    /\ last.op = op
    /\ last.a \in DOMAIN pre.tracks
    /\ last.b \in DOMAIN pre.tracks

\* Proper descendants of id in tr.
Offspring(tr, id) == Closure(tr, ChildrenOf(tr, {id}))

\* The time invariants of the data model: spans are well formed and a parent
\* ends before its child begins.
SpansOk(tr) == \A x \in DOMAIN tr : tr[x].t_begin <= tr[x].t_end

TimeOk(tr) ==
    \A x \in DOMAIN tr :
        tr[x].parent_track_id \in DOMAIN tr =>
            tr[tr[x].parent_track_id].t_end < tr[x].t_begin

\* The children of t1 that integrate_trackDB detaches when t1 ends before f.
DetachedBy(tr, t1, f) == {k \in ChildrenOf(tr, {t1}) : tr[k].t_begin # f}

\* The row of t2 once the children of t1 in DetachedBy have become roots of
\* their subtrees: unchanged unless t2 is in one of these subtrees.
HeadAfterDetach(tr, t1, t2, f) ==
    LET ks == {k \in DetachedBy(tr, t1, f) : t2 \in get_descendants(tr, k)}
    IN  IF ks = {} THEN tr[t2]
        ELSE LET k == CHOOSE k \in ks : TRUE
             IN  [tr[t2] EXCEPT !.root = k,
                                !.parent_track_id = IF t2 = k THEN NO_PARENT ELSE @]

IsMergeAfterEnd ==
    /\ IsIntegrateOn("merge")
    /\ Before(last.a).t_end < last.f
    /\ Before(last.b).t_begin <= last.f /\ last.f <= Before(last.b).t_end

\* C11 (as stated) - Merge result when A ends before f and f is inside B: the
\* call returns, A.t_end is B's original t_end and A keeps t_begin, parent and
\* root; B survives with t_end = f-1 and its t_begin, parent and root unchanged
\* if B.t_begin < f and is deleted otherwise; B's former children have parent A
\* and B's former descendants have root A.root.
C11_MergeAfterEnd_Stated ==
    IsMergeAfterEnd
    => /\ Returned
       /\ After(last.a) = [Before(last.a) EXCEPT !.t_end = Before(last.b).t_end]
       /\ IF Before(last.b).t_begin < last.f
          THEN /\ last.b \in DOMAIN tracks
               /\ After(last.b) = [Before(last.b) EXCEPT !.t_end = last.f - 1]
          ELSE last.b \notin DOMAIN tracks
       /\ \A c \in ChildrenOf(pre.tracks, {last.b}) :
            c \in DOMAIN tracks /\ tracks[c].parent_track_id = last.a
       /\ \A d \in Offspring(pre.tracks, last.b) :
            d \in DOMAIN tracks /\ tracks[d].root = After(last.a).root

\* C11 (amended) - on a store that satisfies the time invariants, the same,
\* except that the surviving B has the parent and root left by the detachment
\* of A's children: when B descends from A through a child of A that does not
\* start at f, that child is B's root (and B has no parent if it is that child).
C11_MergeAfterEnd ==
    (IsMergeAfterEnd /\ SpansOk(pre.tracks) /\ TimeOk(pre.tracks))
    => /\ Returned
       /\ After(last.a) = [Before(last.a) EXCEPT !.t_end = Before(last.b).t_end]
       /\ IF Before(last.b).t_begin < last.f
          THEN /\ last.b \in DOMAIN tracks
               /\ After(last.b) =
                    [HeadAfterDetach(pre.tracks, last.a, last.b, last.f)
                        EXCEPT !.t_end = last.f - 1]
          ELSE last.b \notin DOMAIN tracks
       /\ \A c \in ChildrenOf(pre.tracks, {last.b}) :
            c \in DOMAIN tracks /\ tracks[c].parent_track_id = last.a
       /\ \A d \in Offspring(pre.tracks, last.b) :
            d \in DOMAIN tracks /\ tracks[d].root = After(last.a).root

\* A grandchild of A was merged into A at a frame inside the grandchild: its
\* head survives under the detached child of A.
C11_Witness ==
    /\ IsMergeAfterEnd /\ Returned
    /\ SpansOk(pre.tracks) /\ TimeOk(pre.tracks)
    /\ Before(last.b).t_begin < last.f
    /\ last.b \in DOMAIN tracks
    /\ After(last.b).root # Before(last.b).root
    /\ After(last.b).parent_track_id = Before(last.b).parent_track_id
    /\ After(last.a).t_end = Before(last.b).t_end

\* C12 - Merge/connect with frame inside t1: when t1.t_begin < frame <= t1.t_end
\* and t2 is not a descendant of t1, the call returns, its first result is
\* t1_after = (largest id before the call) + 1, that track is a floating root
\* from t1's first cell at or after frame to t1's original t_end, t1's former
\* children have parent and root t1_after, and t1 keeps t_begin, parent, root.
C12_SplitOfT1 ==
    (/\ last.op \in {"merge", "connect"}
     /\ last.a \in DOMAIN pre.tracks
     /\ last.b \in DOMAIN pre.tracks
     /\ Before(last.a).t_begin < last.f /\ last.f <= Before(last.a).t_end
     /\ last.b \notin get_descendants(pre.tracks, last.a))
    => /\ Returned
       /\ LET t1_after == Max(DOMAIN pre.tracks) + 1
              ts == cells_t(pre.cells, last.a)
          IN  /\ last.ret[1] = t1_after
              /\ t1_after \in DOMAIN tracks
              /\ tracks[t1_after] =
                    TrackDB(NO_PARENT, t1_after,
                            Min({t \in ts : t >= last.f}), Before(last.a).t_end)
              /\ \A c \in ChildrenOf(pre.tracks, {last.a}) :
                    /\ c \in DOMAIN tracks
                    /\ tracks[c].parent_track_id = t1_after
                    /\ tracks[c].root = t1_after
       /\ After(last.a).t_begin = Before(last.a).t_begin
       /\ After(last.a).parent_track_id = Before(last.a).parent_track_id
       /\ After(last.a).root = Before(last.a).root

IsIntegrateAfterEnd ==
    /\ last.op \in {"merge", "connect"}
    /\ last.a \in DOMAIN pre.tracks
    /\ last.b \in DOMAIN pre.tracks
    /\ Before(last.a).t_begin < last.f
    /\ Before(last.a).t_end < last.f

\* Row k is a floating root and every row of its subtree has root k.
RootOfSubtree(tr, k) ==
    /\ k \in DOMAIN tr
    /\ tr[k].parent_track_id = NO_PARENT
    /\ \A d \in get_descendants(tr, k) : tr[d].root = k

\* C13 - Pre-emptive child detachment: when t1 ends before frame, merge/connect
\* returns None as first result, creates no split-off track for t1, every child
\* of t1 with t_begin # frame (t2, which the operation goes on to rewrite, aside)
\* has become the floating root of its subtree, and the children of t1 other
\* than t2 that start at frame are still children of t1.
C13_ChildDetach ==
    IsIntegrateAfterEnd
    => /\ Returned
       /\ last.ret[1] = None
       /\ DOMAIN tracks \ DOMAIN pre.tracks \subseteq {last.ret[2]}
       /\ \A k \in DetachedBy(pre.tracks, last.a, last.f) \ {last.b} :
            RootOfSubtree(tracks, k)
       /\ \A c \in ChildrenOf(pre.tracks, {last.a}) \ {last.b} :
            pre.tracks[c].t_begin = last.f =>
                c \in DOMAIN tracks /\ tracks[c].parent_track_id = last.a

\* C14 - Connect re-parents without merging identity: after connect(t1, t2,
\* frame) with t1.t_begin < frame the call has returned, t2 exists under its own
\* id with parent t1, t2 and all its descendants have root t1.root, t1.t_end is
\* frame - 1 and t1 keeps t_begin, parent and root; when moreover t1.t_end <
\* frame and t2.t_begin >= frame, no track is created and the result is
\* (None, None).
C14_ConnectReparents ==
    (IsIntegrateOn("connect") /\ Before(last.a).t_begin < last.f)
    => /\ Returned
       /\ last.b \in DOMAIN tracks
       /\ After(last.b).parent_track_id = last.a
       /\ \A d \in get_descendants(pre.tracks, last.b) :
            d \in DOMAIN tracks /\ tracks[d].root = After(last.a).root
       /\ After(last.a) = [Before(last.a) EXCEPT !.t_end = last.f - 1]
       /\ (Before(last.a).t_end < last.f /\ Before(last.b).t_begin >= last.f)
            => /\ DOMAIN tracks = DOMAIN pre.tracks
               /\ last.ret = <<None, None>>

\* C15 - Connect head segment: when t2.t_begin < frame (and t1.t_begin < frame),
\* connect returns as second result the id of a new track t2_before spanning
\* [t2's original t_begin, frame-1] that has the parent t2 had (after the
\* detachment of t1's children) and is its own root if t2 was its own root and
\* has t2's root otherwise; t2.t_begin is frame; when t1 is split in the same
\* call, t1_after and t2_before are max+1 and max+2 of the ids before the call.
C15_ConnectHead ==
    (/\ IsIntegrateOn("connect")
     /\ Before(last.a).t_begin < last.f
     /\ Before(last.b).t_begin < last.f)
    => /\ Returned
       /\ LET t2_before == last.ret[2]
              t2 == IF Before(last.a).t_end < last.f
                    THEN HeadAfterDetach(pre.tracks, last.a, last.b, last.f)
                    ELSE Before(last.b)
          IN  /\ t2_before \in DOMAIN tracks \ DOMAIN pre.tracks
              /\ tracks[t2_before] =
                    TrackDB(t2.parent_track_id,
                            IF t2.root = last.b THEN t2_before ELSE t2.root,
                            Before(last.b).t_begin, last.f - 1)
              /\ After(last.b).t_begin = last.f
              /\ Before(last.a).t_end >= last.f =>
                    /\ last.ret[1] = Max(DOMAIN pre.tracks) + 1
                    /\ t2_before = Max(DOMAIN pre.tracks) + 2

\* C16 - Rejected merge/connect: integrate_trackDB(op, t1, t2, frame) on an
\* existing t1 with t1.t_begin >= frame returns (-1, None) and leaves every
\* track row and every cell row unchanged, for 'merge' and for 'connect'.
C16_Rejected ==
    (/\ last.op \in {"merge", "connect"}
     /\ last.a \in DOMAIN pre.tracks
     /\ Before(last.a).t_begin >= last.f)
    => /\ Returned
       /\ last.ret = <<-1, None>>
       /\ Store(tracks, cells) = pre

\* A connect at the very first frame of a t1 that has children was rejected.
C16_Witness ==
    /\ last.op = "connect" /\ Returned
    /\ last.a \in DOMAIN pre.tracks /\ last.b \in DOMAIN pre.tracks
    /\ last.a # last.b
    /\ Before(last.a).t_begin = last.f
    /\ ChildrenOf(pre.tracks, {last.a}) # {}
    /\ last.ret = <<-1, None>>

\* C17 - Delete with children: delete_trackDB(X) on an existing X returns the
\* 'deleted' status and removes the row of X; every former child Y of X is a
\* floating root (parent NO_PARENT, root Y); every deeper descendant keeps its
\* parent and has as root the former child of X it descends from; the time
\* bounds of all surviving tracks are unchanged.
C17_DeleteWithChildren ==
    (last.op = "delete" /\ last.a \in DOMAIN pre.tracks)
    => /\ Returned
       /\ last.ret = "deleted"
       /\ DOMAIN tracks = DOMAIN pre.tracks \ {last.a}
       /\ \A y \in ChildrenOf(pre.tracks, {last.a}) \ {last.a} :
            /\ tracks[y].parent_track_id = NO_PARENT
            /\ tracks[y].root = y
            /\ \A d \in Offspring(pre.tracks, y) \ {last.a} :
                /\ tracks[d].parent_track_id = pre.tracks[d].parent_track_id
                /\ tracks[d].root = y
       /\ \A x \in DOMAIN tracks :
            /\ tracks[x].t_begin = pre.tracks[x].t_begin
            /\ tracks[x].t_end = pre.tracks[x].t_end

\* C18 - Delete of a missing track: delete_trackDB(X) for an id X that is not in
\* the track table returns the status 'Track not found', raises nothing and
\* leaves the track table and the cell table unchanged.
C18_DeleteMissing ==
    (last.op = "delete" /\ last.a \notin DOMAIN pre.tracks)
    => /\ Returned
       /\ last.ret = "Track not found"
       /\ Store(tracks, cells) = pre

\* A track that was already deleted (its cells are still in the cell table)
\* was deleted again.
C18_Witness ==
    /\ last.op = "delete" /\ Returned
    /\ last.a \notin DOMAIN pre.tracks
    /\ cells_t(pre.cells, last.a) # {}
    /\ last.ret = "Track not found"

\* C19 - New-id allocation: in every reachable state get_new_track_id returns
\* an integer greater than every track_id in the track table, exactly max + 1,
\* and 1 when the table is empty (also after the tracks have been deleted one
\* by one).
C19_NewTrackId ==
    LET new_track == get_new_track_id(tracks)
    IN  /\ \A x \in DOMAIN tracks : new_track > x
        /\ DOMAIN tracks # {} => new_track - 1 \in DOMAIN tracks
        /\ DOMAIN tracks = {} => new_track = 1

\* The last track of the table has just been deleted.
C19_Witness ==
    /\ last.op = "delete" /\ Returned
    /\ DOMAIN pre.tracks # {}
    /\ DOMAIN tracks = {}
    /\ get_new_track_id(tracks) = 1

\* The last call was a cut that split track last.a at last.f into last.a and
\* the new track last.ret[2].
IsSplitCut ==
    /\ IsCutOn(last.a) /\ Returned
    /\ Before(last.a).t_begin < last.f /\ last.f <= Before(last.a).t_end

\* integrate_trackDB('merge', T, n, f) run on the store the cut has left.
MergeBack == integrate_trackDB(tracks, cells, "merge", last.a, last.ret[2], last.f)

\* C20 - Cut then merge is a round trip on the track table: after (_, n) =
\* cut_trackDB(T, f) with T.t_begin < f <= T.t_end, integrate_trackDB('merge',
\* T, n, f) returns, leaves n absent and restores t_begin, t_end, parent and
\* root of T and parent and root of every descendant of T.
C20_CutMergeRoundTrip ==
    IsSplitCut
    => /\ MergeBack.exc = "ok"
       /\ last.ret[2] \notin DOMAIN MergeBack.tr
       /\ MergeBack.tr[last.a] = Before(last.a)
       /\ \A d \in Offspring(pre.tracks, last.a) :
            /\ d \in DOMAIN MergeBack.tr
            /\ MergeBack.tr[d].parent_track_id = pre.tracks[d].parent_track_id
            /\ MergeBack.tr[d].root = pre.tracks[d].root

\* ---- cell reassignment (update_cellsDB_after_trackDB)
\* The last call was a cell reassignment with one of the three directions.
IsUpdateCells == last.op \in {"after", "before", "all"}

\* The cells of track last.a that the direction of the last call asks for.
Requested ==
    {c \in pre.cells :
        /\ c[1] = last.a
        /\ last.op = "after" => c[2] >= last.f
        /\ last.op = "before" => c[2] < last.f}

\* The cell table after the requested cells were moved to new_track, or
\* deleted when new_track is None.
Reassigned ==
    IF last.b = None THEN pre.cells \ Requested
    ELSE (pre.cells \ Requested) \cup {<<last.b, c[2]>> : c \in Requested}

\* new_track already has a cell in a frame of a requested cell.
KeyCollision ==
    /\ last.b # None
    /\ last.b # last.a
    /\ \E c \in Requested : <<last.b, c[2]>> \in pre.cells

\* C21 as stated: a reassignment that selects cells rewrites (non-null
\* new_track) or deletes (None) exactly the requested cells, changes no other
\* cell and no track row, and conserves the number of cells when new_track is
\* non-null.
C21_Reassign_Stated ==
    (IsUpdateCells /\ Requested # {}) =>
        /\ cells = Reassigned
        /\ tracks = pre.tracks
        /\ last.b # None => Cardinality(cells) = Cardinality(pre.cells)

\* C21 amended: the same, provided new_track has no cell in a frame of a
\* requested cell; when it has one, the call fails with an integrity error and
\* changes no cell and no track.
C21_Reassign ==
    (IsUpdateCells /\ Requested # {}) =>
        IF KeyCollision
        THEN /\ last.exc = "IntegrityError"
             /\ cells = pre.cells
             /\ tracks = pre.tracks
        ELSE /\ Returned
             /\ cells = Reassigned
             /\ tracks = pre.tracks
             /\ last.b # None => Cardinality(cells) = Cardinality(pre.cells)

\* A 'before' call moved some, but not all, cells of a track to another track
\* while the track has a cell in the frame of the call.
C21_Witness ==
    /\ last.op = "before"
    /\ Returned
    /\ last.b \notin {None, last.a}
    /\ Requested # {}
    /\ <<last.a, last.f>> \in pre.cells
    /\ <<last.a, last.f>> \in cells
    /\ \E c \in Requested : <<last.b, c[2]>> \in cells /\ c \notin cells

\* C22: a reassignment with a valid direction that selects no cell fails with
\* an assertion error and changes no cell and no track, for any track id,
\* frame and new_track.
C22_NoMatchingCell ==
    (IsUpdateCells /\ Requested = {}) =>
        /\ last.exc = "AssertionError"
        /\ cells = pre.cells
        /\ tracks = pre.tracks

\* An 'after' call on an existing track that has cells, all of them before
\* the frame of the call, failed with the assertion.
C22_Witness ==
    /\ last.op = "after"
    /\ last.a \in DOMAIN pre.tracks
    /\ cells_t(pre.cells, last.a) # {}
    /\ Requested = {}
    /\ last.b \in DOMAIN pre.tracks
    /\ last.exc = "AssertionError"

\* C23: a reassignment with a direction other than 'after', 'before' or 'all'
\* raises ValueError with the message "Direction should be 'all', 'before' or
\* 'after'." and leaves every cell and every track as it was, also when the
\* track has cells.
C23_InvalidDirection ==
    last.op = "sideways" =>
        /\ last.exc = "ValueError"
        /\ last.ret = "Direction should be 'all', 'before' or 'after'."
        /\ cells = pre.cells
        /\ tracks = pre.tracks

\* The rejected call named a track with cells at and after the frame, and a
\* new track.
C23_Witness ==
    /\ last.op = "sideways"
    /\ last.exc = "ValueError"
    /\ last.b \in Ids
    /\ \E t \in cells_t(pre.cells, last.a) : t >= last.f
    /\ \E t \in cells_t(pre.cells, last.a) : t < last.f

\* ---- track rows after cell edits (update_trackDB_after_cellDB)
\* The last call removed the cell in the first frame of track last.a, which
\* has further cells.
IsRemoveFirst ==
    /\ last.op = "remove"
    /\ last.a \in DOMAIN pre.tracks
    /\ <<last.a, last.f>> \in pre.cells
    /\ last.f = pre.tracks[last.a].t_begin
    /\ cells_t(pre.cells, last.a) # {last.f}

\* C24 as stated: after remove_CellDB removed the cell in frame X.t_begin of a track X
\* with further cells, the cell is absent, X.t_begin is the smallest t of the
\* remaining cells, X is a root of its own (parent NO_PARENT, root X), every
\* descendant of X has root X, and X.t_end and the parent of each child of X
\* are unchanged.
C24_RemoveFirstCell_Stated ==
    IsRemoveFirst =>
        /\ Returned
        /\ <<last.a, last.f>> \notin cells
        /\ last.a \in DOMAIN tracks
        /\ tracks[last.a].t_begin = Min(cells_t(cells, last.a))
        /\ tracks[last.a].parent_track_id = NO_PARENT
        /\ tracks[last.a].root = last.a
        /\ \A d \in Offspring(tracks, last.a) : tracks[d].root = last.a
        /\ tracks[last.a].t_end = pre.tracks[last.a].t_end
        /\ \A c \in ChildrenOf(pre.tracks, {last.a}) :
              c \in DOMAIN tracks /\ tracks[c].parent_track_id = last.a

\* C24 amended: the same for a track X whose t_begin and t_end were the
\* smallest and largest t of its cells, where the children meant are the
\* tracks other than X, and where X and its descendants take root X when X
\* had a parent and keep their roots when X had none.
C24_RemoveFirstCell ==
    (IsRemoveFirst /\ BoundsMatch(pre.tracks, pre.cells, last.a)) =>
        /\ Returned
        /\ <<last.a, last.f>> \notin cells
        /\ last.a \in DOMAIN tracks
        /\ tracks[last.a].t_begin = Min(cells_t(cells, last.a))
        /\ tracks[last.a].parent_track_id = NO_PARENT
        /\ tracks[last.a].t_end = pre.tracks[last.a].t_end
        /\ \A c \in ChildrenOf(pre.tracks, {last.a}) \ {last.a} :
              c \in DOMAIN tracks /\ tracks[c].parent_track_id = last.a
        /\ \A d \in {last.a} \cup Offspring(tracks, last.a) :
              tracks[d].root = IF pre.tracks[last.a].parent_track_id # NO_PARENT
                               THEN last.a
                               ELSE pre.tracks[d].root

\* The first cell of a daughter that has a daughter of its own was removed:
\* the track was detached and took its daughter along.
C24_Witness ==
    /\ IsRemoveFirst
    /\ BoundsMatch(pre.tracks, pre.cells, last.a)
    /\ Returned
    /\ pre.tracks[last.a].parent_track_id \in DOMAIN pre.tracks
    /\ pre.tracks[last.a].root # last.a
    /\ tracks[last.a].root = last.a
    /\ \E c \in DOMAIN tracks :
          /\ c # last.a
          /\ tracks[c].parent_track_id = last.a
          /\ pre.tracks[c].root # last.a
          /\ tracks[c].root = last.a

\* The last call edited a cell of the existing track last.a (remove_CellDB of
\* a cell it has, or add_new_CellDB), and update_trackDB_after_cellDB ran.
IsCellEdit ==
    /\ last.op \in {"add", "remove"}
    /\ last.a \in DOMAIN pre.tracks
    /\ last.op = "remove" => <<last.a, last.f>> \in pre.cells

\* ... and found cells whose largest t differs from the stored t_end.
IsEndChange ==
    /\ IsCellEdit
    /\ cells_t(cells, last.a) # {}
    /\ Max(cells_t(cells, last.a)) # pre.tracks[last.a].t_end

\* C25 as stated: when the largest t of the track's cells differs from the
\* stored t_end, every direct child becomes a root of its own with its span
\* unchanged, the track's t_end becomes that largest t, and the track's
\* t_begin, parent and root are unchanged.
C25_EndChange_Stated ==
    IsEndChange =>
        /\ Returned
        /\ \A c \in ChildrenOf(pre.tracks, {last.a}) :
              /\ c \in DOMAIN tracks
              /\ tracks[c].parent_track_id = NO_PARENT
              /\ tracks[c].root = c
              /\ tracks[c].t_begin = pre.tracks[c].t_begin
              /\ tracks[c].t_end = pre.tracks[c].t_end
        /\ last.a \in DOMAIN tracks
        /\ tracks[last.a].t_end = Max(cells_t(cells, last.a))
        /\ tracks[last.a].t_begin = pre.tracks[last.a].t_begin
        /\ tracks[last.a].parent_track_id = pre.tracks[last.a].parent_track_id
        /\ tracks[last.a].root = pre.tracks[last.a].root

\* C25 amended: the same when the smallest t of the cells still equals the
\* stored t_begin and the track is not its own ancestor, for every direct
\* child whose span is well formed (t_begin <= t_end).
C25_EndChange ==
    (/\ IsEndChange
     /\ Min(cells_t(cells, last.a)) = pre.tracks[last.a].t_begin
     /\ ~OwnAncestor(pre.tracks, last.a)) =>
        /\ Returned
        /\ \A c \in ChildrenOf(pre.tracks, {last.a}) :
              pre.tracks[c].t_begin <= pre.tracks[c].t_end =>
                  /\ c \in DOMAIN tracks
                  /\ tracks[c].parent_track_id = NO_PARENT
                  /\ tracks[c].root = c
                  /\ tracks[c].t_begin = pre.tracks[c].t_begin
                  /\ tracks[c].t_end = pre.tracks[c].t_end
        /\ last.a \in DOMAIN tracks
        /\ tracks[last.a].t_end = Max(cells_t(cells, last.a))
        /\ tracks[last.a].t_begin = pre.tracks[last.a].t_begin
        /\ tracks[last.a].parent_track_id = pre.tracks[last.a].parent_track_id
        /\ tracks[last.a].root = pre.tracks[last.a].root

\* A cell was added after the end of a daughter that has a daughter of its
\* own: the granddaughter was detached, the daughter stayed with its mother.
C25_Witness ==
    /\ IsEndChange
    /\ last.op = "add"
    /\ Returned
    /\ last.f > pre.tracks[last.a].t_end
    /\ pre.tracks[last.a].parent_track_id \in DOMAIN pre.tracks
    /\ tracks[last.a].parent_track_id = pre.tracks[last.a].parent_track_id
    /\ tracks[last.a].t_end = last.f
    /\ \E c \in DOMAIN tracks :
          /\ pre.tracks[c].parent_track_id = last.a
          /\ pre.tracks[c].root # c
          /\ tracks[c].parent_track_id = NO_PARENT
          /\ tracks[c].root = c

\* The last call added the first cell of a track that had no row.
IsFirstCell == last.op = "add" /\ last.a \notin DOMAIN pre.tracks

\* C26: when a cell (track_id, frame) is added and no track row with that id
\* exists, a row is created with t_begin = t_end = frame, parent NO_PARENT and
\* root = track_id, and no other track row changes.
C26_FirstCellCreatesTrack ==
    IsFirstCell =>
        /\ Returned
        /\ DOMAIN tracks = DOMAIN pre.tracks \cup {last.a}
        /\ tracks[last.a] = TrackDB(NO_PARENT, last.a, last.f, last.f)
        /\ \A x \in DOMAIN pre.tracks : tracks[x] = pre.tracks[x]

\* C27: when the cells of the edited track still have the stored t_begin and
\* t_end as their smallest and largest t (a cell added or removed strictly
\* inside the span), the track's t_begin, t_end, parent and root are
\* unchanged and every child stays attached with its root unchanged.
C27_InteriorEdit ==
    (/\ IsCellEdit
     /\ cells_t(cells, last.a) # {}
     /\ Min(cells_t(cells, last.a)) = pre.tracks[last.a].t_begin
     /\ Max(cells_t(cells, last.a)) = pre.tracks[last.a].t_end) =>
        /\ Returned
        /\ last.a \in DOMAIN tracks
        /\ tracks[last.a] = pre.tracks[last.a]
        /\ \A c \in ChildrenOf(pre.tracks, {last.a}) :
              /\ c \in DOMAIN tracks
              /\ tracks[c].parent_track_id = last.a
              /\ tracks[c].root = pre.tracks[c].root

\* A cell was added in a missing frame inside the span of a mother whose
\* daughter stayed attached.
C27_Witness ==
    /\ IsCellEdit
    /\ last.op = "add"
    /\ Returned
    /\ pre.tracks[last.a].t_begin < last.f
    /\ last.f < pre.tracks[last.a].t_end
    /\ BoundsMatch(pre.tracks, pre.cells, last.a)
    /\ \E c \in DOMAIN tracks :
          /\ c # last.a
          /\ pre.tracks[c].parent_track_id = last.a
          /\ tracks[c].parent_track_id = last.a

\* ---- validator (db_validate)
\* The tracks of the validated table that name a parent.
Linked == {x \in DOMAIN pre.tracks :
              pre.tracks[x].parent_track_id \notin {None, NO_PARENT}}

\* ... a parent that is not in the table.
ParentMissing == {x \in Linked : pre.tracks[x].parent_track_id \notin DOMAIN pre.tracks}

\* ... a parent that is in the table and ends at or after the track's begin.
ParentLate ==
    {x \in Linked \ ParentMissing :
        pre.tracks[pre.tracks[x].parent_track_id].t_end >= pre.tracks[x].t_begin}

\* C28: build_track_graph reports one 'Parent ... not found' error for every
\* track whose parent is neither None nor NO_PARENT and is not in the input,
\* one time error for every track whose existing parent has t_end >= the
\* track's t_begin, and has an edge parent -> child for exactly the remaining
\* parent links; every input track is a node.
C28_BuildTrackGraph ==
    last.op = "build_track_graph" =>
        /\ last.ret.parent_not_found =
              {<<pre.tracks[x].parent_track_id, x>> : x \in ParentMissing}
        /\ last.ret.time =
              {<<pre.tracks[x].parent_track_id, x>> : x \in ParentLate}
        /\ last.ret.G.edges =
              {<<pre.tracks[x].parent_track_id, x>> :
                  x \in (Linked \ ParentMissing) \ ParentLate}
        /\ last.ret.G.nodes = DOMAIN pre.tracks
        /\ tracks = pre.tracks
        /\ cells = pre.cells

\* The graph was built from a table with a missing parent, a parent that ends
\* in the frame in which its child begins, and a well-timed link.
C28_Witness ==
    /\ last.op = "build_track_graph"
    /\ last.ret.parent_not_found # {}
    /\ \E e \in last.ret.time : pre.tracks[e[1]].t_end = pre.tracks[e[2]].t_begin
    /\ last.ret.G.edges # {}
    /\ Cardinality(last.ret.G.nodes) = MaxTracks

\* C29: for every content of the track and cell tables, a cyclic parent
\* relation or a track that is its own parent included, run_tracking_db_checks
\* comes back with a list of error strings, and the list is not empty when
\* the parent relation has a cycle.
C29_ValidatorTerminates ==
    last.op = "run_tracking_db_checks" =>
        /\ Returned
        /\ (\E x \in DOMAIN pre.tracks : OwnAncestor(pre.tracks, x)) =>
              ~is_empty(last.ret)

\* ---- descendant query (get_descendants)
\* The tracks met when walking from d up the parent links, d included.
RECURSIVE Lineage(_, _, _)
Lineage(tr, d, seen) ==
    IF d \notin DOMAIN tr \/ d \in seen THEN seen
    ELSE Lineage(tr, tr[d].parent_track_id, seen \cup {d})

\* C30: on a store whose parent relation is acyclic, get_descendants(X)
\* returns X and every track from which X is reached by walking up the parent
\* links, and nothing else; it returns nothing when X does not exist; it
\* changes neither table.
C30_Descendants ==
    (/\ last.op = "get_descendants"
     /\ \A x \in DOMAIN pre.tracks : ~OwnAncestor(pre.tracks, x)) =>
        /\ Returned
        /\ last.ret = IF last.a \in DOMAIN pre.tracks
                      THEN {d \in DOMAIN pre.tracks :
                               last.a \in Lineage(pre.tracks, d, {})}
                      ELSE {}
        /\ tracks = pre.tracks
        /\ cells = pre.cells

\* The query returned a track, its daughter and its granddaughter.
C30_Witness ==
    /\ last.op = "get_descendants"
    /\ Returned
    /\ \A x \in DOMAIN pre.tracks : ~OwnAncestor(pre.tracks, x)
    /\ last.a \in last.ret
    /\ \E c \in last.ret, g \in last.ret :
          /\ tracks[c].parent_track_id = last.a
          /\ tracks[g].parent_track_id = c
          /\ g # last.a
    /\ last.ret # DOMAIN tracks

\* ---- invariants of the reachable stores
\* C35: after every operation that came back, every track's parent_track_id
\* is NO_PARENT or the id of an existing track; in particular the children of
\* a track whose last cell was removed do not keep the deleted track as
\* their parent.
C35_NoDanglingParent ==
    Returned =>
        \A x \in DOMAIN tracks :
            \/ tracks[x].parent_track_id = NO_PARENT
            \/ tracks[x].parent_track_id \in DOMAIN tracks

\* C36: after every operation that came back, every track has
\* t_begin <= t_end.
C36_WellFormedSpans ==
    Returned => \A x \in DOMAIN tracks : tracks[x].t_begin <= tracks[x].t_end

\* ---- cut_trackDB: branches and frame
\* C37: for every existing track (parent_track_id >= -1) and every frame,
\* cut_trackDB takes the no-op, the detach or the mid-split branch; the final
\* branch that raises 'Track cutting scenario is not accounted for.' is not
\* taken.
C37_CutCasesExhaustive ==
    (/\ last.op = "cut"
     /\ last.a \in DOMAIN pre.tracks
     /\ pre.tracks[last.a].parent_track_id >= -1) =>
        cut_case(pre.tracks[last.a], last.f) \in {"no_effect", "detach", "split"}

\* Cuts at the first frame of a track without parent, at the first frame of a
\* track with a parent, inside and outside a span have all been issued; this
\* one is the cut of a parentless track at its first frame.
C37_Witness ==
    /\ last.op = "cut"
    /\ last.a \in DOMAIN pre.tracks
    /\ pre.tracks[last.a].parent_track_id = NO_PARENT
    /\ pre.tracks[last.a].t_begin = last.f
    /\ pre.tracks[last.a].t_end > last.f
    /\ Returned
    /\ tracks = pre.tracks

\* C39: cut_trackDB(T, frame) adds, deletes and modifies no cell, and changes
\* no track row other than T, the track it creates and the transitive
\* descendants of T: ancestors, siblings and other lineages keep all fields.
C39_CutFrame ==
    last.op = "cut" =>
        /\ cells = pre.cells
        /\ DOMAIN pre.tracks \subseteq DOMAIN tracks
        /\ \A x \in DOMAIN pre.tracks :
              last.a \notin Lineage(pre.tracks, x, {}) => tracks[x] = pre.tracks[x]
        /\ \A n \in DOMAIN tracks \ DOMAIN pre.tracks :
              n = Max(DOMAIN pre.tracks) + 1

\* A daughter was detached from a family: the daughter changed, her mother
\* and her sister, who carry the same root as she did, did not.
C39_Witness ==
    /\ last.op = "cut"
    /\ Returned
    /\ last.a \in DOMAIN pre.tracks
    /\ tracks[last.a] # pre.tracks[last.a]
    /\ \E m \in DOMAIN pre.tracks, sis \in DOMAIN pre.tracks :
          /\ sis # last.a
          /\ pre.tracks[last.a].parent_track_id = m
          /\ pre.tracks[sis].parent_track_id = m
          /\ pre.tracks[sis].root = pre.tracks[last.a].root
          /\ pre.tracks[m].root = pre.tracks[last.a].root
          /\ tracks[sis] = pre.tracks[sis]
          /\ tracks[m] = pre.tracks[m]

\* C38: whenever run_tracking_db_checks returns an empty list, every track
\* with parent_track_id == NO_PARENT has root == its own track_id and every
\* track with a parent has the same root as its parent.
C38_PassImpliesRootInvariant ==
    (/\ last.op = "run_tracking_db_checks"
     /\ Returned
     /\ is_empty(last.ret)) =>
        \A x \in DOMAIN pre.tracks :
            /\ pre.tracks[x].parent_track_id = NO_PARENT => pre.tracks[x].root = x
            /\ pre.tracks[x].parent_track_id \in DOMAIN pre.tracks =>
                  pre.tracks[x].root = pre.tracks[pre.tracks[x].parent_track_id].root

\* ---- successive connects
\* Track x of table tr has no parent and its span contains frame f.
FloatingAt(tr, x, f) ==
    /\ x \in DOMAIN tr
    /\ tr[x].parent_track_id = NO_PARENT
    /\ tr[x].t_begin <= f
    /\ f <= tr[x].t_end

\* The last call was connect(t1, t2, f) with t1.t_begin < f and a floating
\* t2 that contains f.
IsFirstConnect ==
    /\ last.op = "connect"
    /\ last.a \in DOMAIN pre.tracks
    /\ last.a # last.b
    /\ pre.tracks[last.a].t_begin < last.f
    /\ FloatingAt(pre.tracks, last.b, last.f)

\* The tracks that can be the second daughter.
ThirdTracks ==
    {t3 \in DOMAIN pre.tracks \ {last.a, last.b} :
        FloatingAt(pre.tracks, t3, last.f)}

\* The connect of a second daughter t3, issued now.
SecondConnect(t3) ==
    integrate_trackDB(tracks, cells, "connect", last.a, t3, last.f)

\* C40 as stated: connect(t1, t2, f) followed by connect(t1, t3, f), for t1
\* with t1.t_begin < f and floating t2, t3 that contain f, ends with t2 and t3
\* direct children of t1 that begin at f and carry t1's root, and with
\* t1.t_end = f - 1; the second connect does not detach the first daughter.
C40_TwoDaughters_Stated ==
    IsFirstConnect =>
        /\ Returned
        /\ \A t3 \in ThirdTracks :
              LET second == SecondConnect(t3)
              IN  /\ second.exc = "ok"
                  /\ \A d \in {last.b, t3} :
                        /\ d \in DOMAIN second.tr
                        /\ second.tr[d].parent_track_id = last.a
                        /\ second.tr[d].t_begin = last.f
                        /\ second.tr[d].root = second.tr[last.a].root
                  /\ second.tr[last.a].t_end = last.f - 1

\* The store before the first connect has well-formed spans, parents that
\* end before their children begin, and t1 either ends before f or has cells
\* on both sides of the cut at f.
ConnectableStore ==
    /\ SpansOk(pre.tracks)
    /\ TimeOk(pre.tracks)
    /\ \/ pre.tracks[last.a].t_end < last.f
       \/ /\ \E t \in cells_t(pre.cells, last.a) : t >= last.f
          /\ \E t \in cells_t(pre.cells, last.a) : t < last.f

\* C40 amended: the same on such a store.
C40_TwoDaughters ==
    (IsFirstConnect /\ ConnectableStore) =>
        /\ Returned
        /\ \A t3 \in ThirdTracks :
              LET second == SecondConnect(t3)
              IN  /\ second.exc = "ok"
                  /\ \A d \in {last.b, t3} :
                        /\ d \in DOMAIN second.tr
                        /\ second.tr[d].parent_track_id = last.a
                        /\ second.tr[d].t_begin = last.f
                        /\ second.tr[d].root = second.tr[last.a].root
                  /\ second.tr[last.a].t_end = last.f - 1

\* The first daughter was connected and a second floating track that
\* contains the frame is there to be connected.
C40_Witness ==
    /\ IsFirstConnect
    /\ ConnectableStore
    /\ Returned
    /\ tracks[last.b].parent_track_id = last.a
    /\ \E t3 \in ThirdTracks :
          /\ SecondConnect(t3).exc = "ok"
          /\ SecondConnect(t3).tr[t3].parent_track_id = last.a
          /\ SecondConnect(t3).tr[last.b].parent_track_id = last.a

\* ---- track edits followed by cell reassignment
\* Every track of the store before the last call had the smallest and largest
\* t of its cells as t_begin and t_end.
BoundsMatched == \A x \in DOMAIN pre.tracks : BoundsMatch(pre.tracks, pre.cells, x)

\* The last call was a mid-track cut that returned a new track.
IsMidCut ==
    /\ last.op = "cut"
    /\ Returned
    /\ last.ret[2] # None

\* The cell reassignment that follows the cut, issued now.
SyncAfterCut ==
    update_cellsDB_after_trackDB(tracks, cells, last.a, last.f, last.ret[2], "after")

\* C34: from a store whose bounds match the cells, a mid-track cut of T at f
\* followed by update_cellsDB_after_trackDB(T, f, new_id, 'after') does not
\* hit the assertion, and afterwards T and new_id each have a cell and
\* bounds equal to the smallest and largest t of their cells.
C34_CutThenSync ==
    (IsMidCut /\ BoundsMatched) =>
        /\ SyncAfterCut.exc = "ok"
        /\ SyncAfterCut.tr = tracks
        /\ BoundsMatch(tracks, SyncAfterCut.cl, last.a)
        /\ BoundsMatch(tracks, SyncAfterCut.cl, last.ret[2])

\* The last call was a merge or connect of two different tracks that was not
\* rejected and came back, at a frame inside the span of t2.
IsIntegrated ==
    /\ last.op \in {"merge", "connect"}
    /\ Returned
    /\ last.ret[1] # -1
    /\ last.a # last.b
    /\ last.b \in DOMAIN pre.tracks
    /\ pre.tracks[last.b].t_begin <= last.f
    /\ last.f <= pre.tracks[last.b].t_end

\* The reassignment of t1's cells from the frame on to t1_after.
SyncT1 ==
    IF last.ret[1] = None THEN Outcome(tracks, cells, None, "ok")
    ELSE update_cellsDB_after_trackDB(tracks, cells, last.a, last.f,
                                      last.ret[1], "after")

\* Then, for merge, t2's cells from the frame on to t1; for connect, t2's
\* cells before the frame to t2_before.
SyncT2 ==
    IF last.op = "merge"
    THEN update_cellsDB_after_trackDB(tracks, SyncT1.cl, last.b, last.f,
                                      last.a, "after")
    ELSE IF last.ret[2] = None THEN Outcome(tracks, SyncT1.cl, None, "ok")
    ELSE update_cellsDB_after_trackDB(tracks, SyncT1.cl, last.b, last.f,
                                      last.ret[2], "before")

\* C33: from a store whose bounds match the cells (no cell without a track,
\* parents ending before their children begin), after merge or connect at a
\* frame and the cell reassignments for the ids it returned, every track's
\* t_begin and t_end are the smallest and largest t of its cells, also when
\* t1's last cell before the frame is earlier than frame - 1 or t2 has no
\* cell at frame - 1.
C33_BoundsAfterIntegrate ==
    (/\ IsIntegrated
     /\ BoundsMatched
     /\ TimeOk(pre.tracks)
     /\ \A c \in pre.cells : c[1] \in DOMAIN pre.tracks) =>
        /\ SyncT1.exc = "ok"
        /\ SyncT2.exc = "ok"
        /\ \A x \in DOMAIN tracks : BoundsMatch(tracks, SyncT2.cl, x)

\* C31: while two callers are between reading their id and adding their row
\* and neither row exists yet, both hold the same id, max(track_id) + 1; the
\* second of them to commit fails on the primary key. A commit fails only
\* for a caller whose call overlapped with another caller's: when every cut
\* runs to its commit before the next one starts, no commit fails and no id
\* is handed out twice.
C31_IdCollision ==
    \A p \in Callers :
        /\ \A q \in Callers \ {p} :
              (/\ InFlight(p) /\ InFlight(q)
               /\ sessions[p].new_track \notin DOMAIN tracks
               /\ sessions[q].new_track \notin DOMAIN tracks) =>
                  /\ sessions[p].new_track = sessions[q].new_track
                  /\ sessions[p].new_track = Max(DOMAIN tracks) + 1
        /\ sessions[p].pc = "failed" => sessions[p].overlap
        /\ (InFlight(p) /\ ~sessions[p].overlap) =>
              sessions[p].new_track \notin DOMAIN tracks

\* Two cuts on different tracks read the same id; one has committed its
\* row and the commit of the other has just failed.
C31_Witness ==
    \E p \in Callers, q \in Callers :
        /\ sessions[p].pc = "failed"
        /\ sessions[q].pc = "committed"
        /\ sessions[p].new_track = sessions[q].new_track
        /\ sessions[p].active_label # sessions[q].active_label
        /\ last.exc = "IntegrityError"
        /\ last.a = sessions[p].active_label

\* The invariants of the data model: no cell without a track, every track
\* has cells and its bounds are their min/max t, a parent is NO_PARENT or a
\* track that ends before the child begins, no track is its own ancestor,
\* a floating track is its own root and a child has the root of its parent.
DataModelInvariants(tr, cl) ==
    /\ \A c \in cl : c[1] \in DOMAIN tr
    /\ \A x \in DOMAIN tr :
        /\ BoundsMatch(tr, cl, x)
        /\ tr[x].parent_track_id \in DOMAIN tr \cup {NO_PARENT}
        /\ ~OwnAncestor(tr, x)
        /\ IF tr[x].parent_track_id = NO_PARENT THEN tr[x].root = x
           ELSE tr[x].root = tr[tr[x].parent_track_id].root
    /\ TimeOk(tr)

\* C32: on a store that satisfies the invariants of the data model, the
\* exported cell graph has one node per cell, carrying the cell's track_id, t,
\* row (as y) and col (as x), and the track table rebuilt from the exported
\* graph (assign_tracklet_ids on attribute track_id, build_tracklet_graph,
\* tracklet_graph_to_TrackDB) has the same tracks with the same t_begin,
\* t_end, parent_track_id and root.
C32_RoundTrip ==
    DataModelInvariants(tracks, cells) =>
        /\ last.op = "TG_to_cell_graph" =>
              /\ Cardinality(last.ret.nodes) = Cardinality(cells)
              /\ \A c \in cells :
                    LET a == last.ret.attr[CellDB(c).id]
                    IN  /\ a.track_id = c[1]
                        /\ a.t = c[2]
                        /\ a.y = CellDB(c).row
                        /\ a.x = CellDB(c).col
        /\ last.op = "tracklet_graph_to_TrackDB" =>
              /\ last.exc = "ok"
              /\ last.ret = tracks

\* A table edited by a returned call, with a daughter and a track with a
\* missing frame, has been exported and rebuilt.
C32_Witness ==
    /\ last.op = "tracklet_graph_to_TrackDB"
    /\ DataModelInvariants(tracks, cells)
    /\ steps < MaxSteps
    /\ \E x \in DOMAIN tracks : tracks[x].parent_track_id # NO_PARENT
    /\ \E x \in DOMAIN tracks :
          Cardinality(cells_t(cells, x)) < tracks[x].t_end - tracks[x].t_begin + 1
    /\ last.ret = tracks


====
